---- MODULE Spec2Model ----
(***************************************************************************)
(* Model of obsidian-semantic-search, src/src/lib.rs:                      *)
(*   GenerateEmbeddingsCommand::get_embeddings  (the generation run)       *)
(*   QueryCommand::get_similarity / get_suggestions  (the query)           *)
(*   Client::post_embedding_request  (the provider reply classification)   *)
(*   cosine_similarity  (the score)                                        *)
(* The two files input.csv and embedding.csv are sequences of rows, a row  *)
(* a sequence of fields.  The vector field of a store row is text: it is   *)
(* kept as the list of tokens between its commas.                          *)
(***************************************************************************)
EXTENDS Integers, Sequences, FiniteSets, TLC

VARIABLES
    data_file,       \* input.csv: [readable, rows]
    store,           \* embedding.csv: [exists, rows]
    prior_store,     \* history: embedding.csv when the generation run started
    num_batches,     \* self.num_batches
    gpc,             \* position of the generation run
    gerr,            \* the error or fault the generation run ended with
    input,           \* get_embeddings: input (rows of input.csv as read)
    string_records,  \* get_embeddings: string_records
    num_records,     \* get_embeddings: num_records
    batch_size,      \* get_embeddings: batch_size
    num_processed,   \* get_embeddings: num_processed
    batch,           \* get_embeddings: batch
    num_to_process,  \* get_embeddings: num_to_process
    request,         \* get_embeddings: request.input, the batch in flight
    reply,           \* the provider's reply to the last generation request
    response,        \* get_embeddings: what post_embedding_request returned for it
    pending,         \* get_embeddings: data, the rows handed to write_to_path
    log,             \* history: one entry per provider request of the run
    calls,           \* history: number of provider requests submitted
    qpc,             \* position of each query
    qerr,            \* the error or fault each query ended with
    qrows,           \* get_similarity: rows
    qvec,            \* get_similarity: query_embedding
    qres,            \* get_suggestions: ranked_suggestions
    qcalls,          \* history: number of provider requests each query submitted
    epc,             \* position of get_input_cost_estimate
    eres,            \* get_input_cost_estimate: [err, tokens]
    xpc,             \* position of check_embedding_file_exists
    xres             \* check_embedding_file_exists: exists

gvars == <<num_batches, gpc, gerr, input, string_records, num_records, batch_size,
           num_processed, batch, num_to_process, request, reply, response, pending,
           log>>
qvars == <<qpc, qerr, qrows, qvec, qres, qcalls>>
ovars == <<epc, eres, xpc, xres>>
vars == <<data_file, store, prior_store, calls, gvars, qvars, ovars>>

(***************************************************************************)
(* Bounds of the model.                                                    *)
(***************************************************************************)
MaxDocs == 5
MaxBatches == 4
MaxRows == 12
MaxCoord == 12
MaxScale == 4
NumQueries == 2
MaxConcRows == 5
MaxConcDocs == 3
MaxConcBatches == 2

\* ranked_suggestions.truncate(10)
TopK == 10

Queries == 1..NumQueries

(***************************************************************************)
(* Sequence helpers.                                                       *)
(***************************************************************************)
Range(s) == {s[i] : i \in 1..Len(s)}

Min(a, b) == IF a < b THEN a ELSE b

\* s[from..to) with 0-based positions, as a Rust slice or Vec::truncate takes it
Slice(s, from, to) == [i \in 1..(to - from) |-> s[from + i]]

(***************************************************************************)
(* Vectors.  Stored vectors have an integer Euclidean norm and query       *)
(* vectors a norm that is a power of two (or zero), so every f32           *)
(* operation of cosine_similarity on them is exact.                        *)
(***************************************************************************)
VecPool == << <<3, 4>>, <<4, 3>>, <<1, 0>>, <<5, 12>>, <<-3, 4>>, <<0, 0>>,
              <<12, 5>>, <<4, 0>>, <<8, 6>> >>

\* the vector the provider computes for the text at input position k (0-based)
\* under provider behaviour seed
Embed(k, seed) == VecPool[((k + 4 * seed) % Len(VecPool)) + 1]

(***************************************************************************)
(* Documents of input.csv.  ReaderBuilder::new() keeps the csv crate's     *)
(* default has_headers = true, so records() never yields the first row;    *)
(* flexible(false) makes a row whose field count differs from the first    *)
(* row's an error.                                                         *)
(***************************************************************************)
HeaderRow == <<"name", "header", "body">>

Doc(k) == << <<"n", k>>, <<"h", k>>, <<"b", k>> >>

\* input.csv with n documents at input positions 0..n-1
Table(n) == <<HeaderRow>> \o [i \in 1..n |-> Doc(i - 1)]

\* the same with one field missing in the last row
Ragged(n) == <<HeaderRow>> \o [i \in 1..n |-> IF i = n THEN <<Doc(i - 1)[1], Doc(i - 1)[2]>>
                                                     ELSE Doc(i - 1)]

\* input.csv with n documents of two columns each, header row included
Narrow(n) == [i \in 1..(n + 1) |-> <<Table(n)[i][1], Table(n)[i][2]>>]

CsvRagged(rows) == \E i \in 1..Len(rows) : Len(rows[i]) # Len(rows[1])

CsvRecords(rows) == IF rows = <<>> THEN <<>> ELSE Tail(rows)

\* get_content_to_embed: [err, val]
GetContentToEmbed(rows) ==
    IF CsvRagged(rows) THEN [err |-> "CsvError", val |-> <<>>]
    ELSE IF \E i \in 1..Len(CsvRecords(rows)) : Len(CsvRecords(rows)[i]) < 3
         THEN [err |-> "panic:get(2).unwrap", val |-> <<>>]
    ELSE [err |-> "none",
          val |-> [i \in 1..Len(CsvRecords(rows)) |-> CsvRecords(rows)[i][3]]]

\* get_filename_body: [err, val]; the pairs are (column 0, column 2)
GetFilenameBody(rows) ==
    IF CsvRagged(rows) THEN [err |-> "CsvError", val |-> <<>>]
    ELSE IF \E i \in 1..Len(CsvRecords(rows)) : Len(CsvRecords(rows)[i]) < 3
         THEN [err |-> "panic:get(2).unwrap", val |-> <<>>]
    ELSE [err |-> "none",
          val |-> [i \in 1..Len(CsvRecords(rows)) |->
                      <<CsvRecords(rows)[i][1], CsvRecords(rows)[i][3]>>]]

(***************************************************************************)
(* The vector field of a store row.                                        *)
(***************************************************************************)
\* f32::to_string of an integral value
FormatF32(x) == ToString(x)

\* embedding.into_iter().map(to_string).collect().join(","), as the tokens
\* split(",") finds in it: the empty text holds one empty token
JoinVector(v) == IF v = <<>> THEN <<"">> ELSE [i \in 1..Len(v) |-> FormatF32(v[i])]

\* s.parse::<f32>(): the tokens that are numbers, and their values
Coords == (0 - MaxCoord)..MaxCoord

IsF32(tok) == \E n \in Coords : FormatF32(n) = tok

ParseF32(tok) == CHOOSE n \in Coords : FormatF32(n) = tok

(***************************************************************************)
(* FileProcessor (file_processor.rs): delete, append, read.                *)
(***************************************************************************)
NoFile == [exists |-> FALSE, rows |-> <<>>]

DeleteFileAtPath(f) == NoFile

WriteToPath(f, data) == [exists |-> TRUE, rows |-> f.rows \o data]

(***************************************************************************)
(* Client::post_embedding_request.  A reply is [sent, status, body]; sent  *)
(* is FALSE when the transport failed.  A body is [kind, data]: kind is    *)
(* "embeddings" (deserializes as EmbeddingResponse), "error" (deserializes *)
(* as WrappedError) or "garbage" (neither).                                *)
(***************************************************************************)
IsSuccess(status) == status >= 200 /\ status <= 299

\* the classification without the status test: every body is read as an
\* EmbeddingResponse
PostEmbeddingRequestNoStatus(rep) ==
    IF ~rep.sent THEN [err |-> "Reqwest", data |-> <<>>]
    ELSE IF rep.body.kind = "embeddings"
         THEN [err |-> "none", data |-> rep.body.data]
         ELSE [err |-> "JSONDeserialize", data |-> <<>>]

PostEmbeddingRequest(rep) ==
    IF ~rep.sent THEN [err |-> "Reqwest", data |-> <<>>]
    ELSE IF ~IsSuccess(rep.status)
         THEN IF rep.body.kind = "error"
              THEN [err |-> "ApiError", data |-> <<>>]
              ELSE [err |-> "JSONDeserialize", data |-> <<>>]
    ELSE IF rep.body.kind = "embeddings"
         THEN [err |-> "none", data |-> rep.body.data]
         ELSE [err |-> "JSONDeserialize", data |-> <<>>]

Statuses == {200, 429}

NoReply == [sent |-> FALSE, status |-> 0, body |-> [kind |-> "garbage", data |-> <<>>]]

\* the replies the provider can give to a request for n texts starting at
\* input position start: any status with any body; an embeddings body holds
\* m <= n vectors
EmbeddingBodies(start, n) ==
    {[kind |-> "embeddings", data |-> [i \in 1..m |-> Embed(start + i - 1, seed)]] :
        m \in 0..n, seed \in {0, 1}}

Replies(start, n) ==
    {NoReply}
    \cup {[sent |-> TRUE, status |-> s, body |-> b] :
            s \in Statuses,
            b \in EmbeddingBodies(start, n)
                  \cup {[kind |-> "error", data |-> <<>>], [kind |-> "garbage", data |-> <<>>]}}

(***************************************************************************)
(* get_embeddings.                                                         *)
(***************************************************************************)
\* the batch size rounded down instead of up
BatchSizeFloor(n, b) == n \div b

\* (num_records as f64 / num_batches as f64).ceil() as usize, num_batches >= 1
BatchSize(n, b) == (n + b - 1) \div b

NumToProcess(b, nb, n, np, bs) == IF b = nb THEN n - np ELSE bs

\* the loop test off by one
LoopCondInclusive(np, n) == np <= n

LoopCond(np, n) == np < n

\* the loop over arr with the document looked up at the batch-local position
BuildRecordsBatchLocal(np, arr, data, filename_body) ==
    IF \E i \in 1..Len(arr) : np + i > Len(filename_body) \/ i > Len(data)
    THEN [err |-> "GetEmbeddingsError", data |-> <<>>]
    ELSE [err |-> "none",
          data |-> [i \in 1..Len(arr) |->
                      <<filename_body[i][1], filename_body[i][2], JoinVector(data[i])>>]]

\* the loop over arr (lines 80-96): [err, data]
BuildRecords(np, arr, data, filename_body) ==
    IF \E i \in 1..Len(arr) : np + i > Len(filename_body) \/ i > Len(data)
    THEN [err |-> "GetEmbeddingsError", data |-> <<>>]
    ELSE [err |-> "none",
          data |-> [i \in 1..Len(arr) |->
                      <<filename_body[np + i][1], filename_body[np + i][2],
                        JoinVector(data[i])>>]]

\* the run without its delete
GenDeleteSkipped ==
    /\ gpc = "start"
    /\ gpc' = "read"
    /\ UNCHANGED <<data_file, store, prior_store, calls, num_batches, gerr, input,
                   string_records, num_records, batch_size, num_processed, batch,
                   num_to_process, request, reply, response, pending, log, qvars, ovars>>

GenDelete ==
    /\ gpc = "start"
    /\ \/ /\ store' = DeleteFileAtPath(store)
          /\ gpc' = "read"
          /\ gerr' = gerr
       \/ /\ gpc' = "error"
          /\ gerr' = "DeleteError"
          /\ store' = store
    /\ UNCHANGED <<data_file, prior_store, calls, num_batches, input, string_records,
                   num_records, batch_size, num_processed, batch, num_to_process,
                   request, reply, response, pending, log, qvars, ovars>>

GenRead ==
    /\ gpc = "read"
    /\ IF ~data_file.readable
       THEN /\ gpc' = "error"
            /\ gerr' = "ReadError"
            /\ UNCHANGED <<input, string_records, num_records, batch_size>>
       ELSE LET r == GetContentToEmbed(data_file.rows) IN
            /\ input' = data_file.rows
            /\ IF r.err # "none"
               THEN /\ gpc' = IF r.err = "CsvError" THEN "error" ELSE "panic"
                    /\ gerr' = r.err
                    /\ UNCHANGED <<string_records, num_records, batch_size>>
               ELSE /\ gpc' = "loop"
                    /\ gerr' = gerr
                    /\ string_records' = r.val
                    /\ num_records' = Len(r.val)
                    /\ batch_size' = BatchSize(Len(r.val), num_batches)
    /\ UNCHANGED <<data_file, store, prior_store, calls, num_batches, num_processed,
                   batch, num_to_process, request, reply, response, pending, log, qvars, ovars>>

\* the next batch submitted while the write of the last one is still in progress
GenSubmitEarly ==
    /\ gpc \in {"loop", "writing"}
    /\ LoopCond(num_processed, num_records)
    /\ LET n == NumToProcess(batch, num_batches, num_records, num_processed, batch_size) IN
       /\ num_to_process' = n
       /\ IF num_processed + n > Len(string_records)
          THEN /\ gpc' = "panic"
               /\ gerr' = "panic:slice"
               /\ UNCHANGED <<request, log, calls>>
          ELSE /\ gpc' = "awaiting"
               /\ gerr' = gerr
               /\ request' = Slice(string_records, num_processed, num_processed + n)
               /\ log' = Append(log, [start |-> num_processed, len |-> n, data |-> <<>>,
                                      replied |-> FALSE, written |-> FALSE])
               /\ calls' = calls + 1
    /\ UNCHANGED <<data_file, store, prior_store, num_batches, input, string_records,
                   num_records, batch_size, num_processed, batch, reply, response,
                   pending, qvars, ovars>>

GenSubmit ==
    /\ gpc = "loop"
    /\ LoopCond(num_processed, num_records)
    /\ LET n == NumToProcess(batch, num_batches, num_records, num_processed, batch_size) IN
       /\ num_to_process' = n
       /\ IF num_processed + n > Len(string_records)
          THEN /\ gpc' = "panic"
               /\ gerr' = "panic:slice"
               /\ UNCHANGED <<request, log, calls>>
          ELSE /\ gpc' = "awaiting"
               /\ gerr' = gerr
               /\ request' = Slice(string_records, num_processed, num_processed + n)
               /\ log' = Append(log, [start |-> num_processed, len |-> n, data |-> <<>>,
                                      replied |-> FALSE, written |-> FALSE])
               /\ calls' = calls + 1
    /\ UNCHANGED <<data_file, store, prior_store, num_batches, input, string_records,
                   num_records, batch_size, num_processed, batch, reply, response,
                   pending, qvars, ovars>>

GenReply ==
    /\ gpc = "awaiting"
    /\ \E rep \in Replies(num_processed, Len(request)) :
         LET r == PostEmbeddingRequest(rep)
             fb == GetFilenameBody(input)
             built == BuildRecords(num_processed, request, r.data, fb.val)
         IN /\ reply' = rep
            /\ response' = r
            /\ IF r.err # "none"
               THEN /\ gpc' = "error"
                    /\ gerr' = r.err
                    /\ log' = [log EXCEPT ![Len(log)].replied = TRUE]
                    /\ UNCHANGED pending
               ELSE /\ log' = [log EXCEPT ![Len(log)].data = r.data,
                                          ![Len(log)].replied = TRUE]
                    /\ IF fb.err # "none" \/ built.err # "none"
                       THEN /\ gpc' = "error"
                            /\ gerr' = IF fb.err # "none" THEN fb.err ELSE built.err
                            /\ UNCHANGED pending
                       ELSE /\ gpc' = "writing"
                            /\ gerr' = gerr
                            /\ pending' = built.data
    /\ UNCHANGED <<data_file, store, prior_store, calls, num_batches, input,
                   string_records, num_records, batch_size, num_processed, batch,
                   num_to_process, request, qvars, ovars>>

\* a failed write swallowed and the batch tried again
GenWriteRetry ==
    /\ gpc = "writing"
    /\ \/ /\ store' = WriteToPath(store, pending)
          /\ num_processed' = num_processed + num_to_process
          /\ batch' = batch + 1
          /\ log' = [log EXCEPT ![Len(log)].written = TRUE]
          /\ gpc' = "loop"
          /\ gerr' = gerr
       \/ /\ gpc' = "loop"
          /\ UNCHANGED <<gerr, store, num_processed, batch, log>>
    /\ UNCHANGED <<data_file, prior_store, calls, num_batches, input, string_records,
                   num_records, batch_size, num_to_process, request, reply, response,
                   pending, qvars, ovars>>

\* the write without the advance of num_processed
GenWriteNoAdvance ==
    /\ gpc = "writing"
    /\ \/ /\ store' = WriteToPath(store, pending)
          /\ num_processed' = num_processed
          /\ batch' = batch + 1
          /\ log' = [log EXCEPT ![Len(log)].written = TRUE]
          /\ gpc' = "loop"
          /\ gerr' = gerr
       \/ /\ gpc' = "error"
          /\ gerr' = "WriteError"
          /\ UNCHANGED <<store, num_processed, batch, log>>
    /\ UNCHANGED <<data_file, prior_store, calls, num_batches, input, string_records,
                   num_records, batch_size, num_to_process, request, reply, response,
                   pending, qvars, ovars>>

GenWrite ==
    /\ gpc = "writing"
    /\ \/ /\ store' = WriteToPath(store, pending)
          /\ num_processed' = num_processed + num_to_process
          /\ batch' = batch + 1
          /\ log' = [log EXCEPT ![Len(log)].written = TRUE]
          /\ gpc' = "loop"
          /\ gerr' = gerr
       \/ /\ gpc' = "error"
          /\ gerr' = "WriteError"
          /\ UNCHANGED <<store, num_processed, batch, log>>
    /\ UNCHANGED <<data_file, prior_store, calls, num_batches, input, string_records,
                   num_records, batch_size, num_to_process, request, reply, response,
                   pending, qvars, ovars>>

GenDone ==
    /\ gpc = "loop"
    /\ ~LoopCond(num_processed, num_records)
    /\ gpc' = "ok"
    /\ UNCHANGED <<data_file, store, prior_store, calls, num_batches, gerr, input,
                   string_records, num_records, batch_size, num_processed, batch,
                   num_to_process, request, reply, response, pending, log, qvars, ovars>>

(***************************************************************************)
(* cosine_similarity.  The value is "shape" when ndarray's dot panics on   *)
(* arrays of different length, "nan" for 0.0 / 0.0, and otherwise the      *)
(* fraction num / den with den > 0.                                        *)
(***************************************************************************)
RECURSIVE Dot(_, _)
Dot(a, b) == IF a = <<>> THEN 0 ELSE Head(a) * Head(b) + Dot(Tail(a), Tail(b))

\* f32::sqrt of a perfect square
Sqrt(n) == CHOOSE r \in 0..(2 * MaxCoord * MaxScale) : r * r = n

\* a1.dot(&a2) / a1.dot(&a1).sqrt() * a2.dot(&a2).sqrt()
CosineSimilarity(left, right) ==
    IF Len(left) # Len(right) THEN [kind |-> "shape", num |-> 0, den |-> 1]
    ELSE IF Dot(left, left) = 0 THEN [kind |-> "nan", num |-> 0, den |-> 1]
    ELSE [kind |-> "num",
          num |-> Dot(left, right) * Sqrt(Dot(right, right)),
          den |-> Sqrt(Dot(left, left))]

\* f32::partial_cmp
PartialCmp(x, y) ==
    IF x.kind # "num" \/ y.kind # "num" THEN "none"
    ELSE IF x.num * y.den < y.num * x.den THEN "less"
    ELSE IF x.num * y.den > y.num * x.den THEN "greater"
    ELSE "equal"

(***************************************************************************)
(* QueryCommand::get_embedding_rows: [err, rows].  The first row of        *)
(* embedding.csv is the reader's header row and is not among the records.  *)
(***************************************************************************)
ParseVector(field) == [i \in 1..Len(field) |-> ParseF32(field[i])]

GetEmbeddingRows(f) ==
    IF ~f.exists THEN [err |-> "ReadError", rows |-> <<>>]
    ELSE IF CsvRagged(f.rows) THEN [err |-> "CsvError", rows |-> <<>>]
    ELSE IF \E i \in 1..Len(CsvRecords(f.rows)) : Len(CsvRecords(f.rows)[i]) < 3
         THEN [err |-> "panic:get(2).unwrap", rows |-> <<>>]
    ELSE IF \E i \in 1..Len(CsvRecords(f.rows)) :
               \E t \in 1..Len(CsvRecords(f.rows)[i][3]) : ~IsF32(CsvRecords(f.rows)[i][3][t])
         THEN [err |-> "panic:parse.unwrap", rows |-> <<>>]
    ELSE [err |-> "none",
          rows |-> [i \in 1..Len(CsvRecords(f.rows)) |->
                      <<CsvRecords(f.rows)[i][1], CsvRecords(f.rows)[i][2],
                        ParseVector(CsvRecords(f.rows)[i][3])>>]]

(***************************************************************************)
(* QueryCommand::get_similarity, lines 157-159.                            *)
(***************************************************************************)
\* the faults of the comparator: with two rows or more every row is compared
\* at least once, and the comparison unwraps partial_cmp of its score
SortFaults(q, rows) ==
    IF Len(rows) < 2 THEN {}
    ELSE (IF \E j \in 1..Len(rows) : CosineSimilarity(q, rows[j][3]).kind = "shape"
          THEN {"panic:dot"} ELSE {})
         \cup (IF \E j \in 1..Len(rows) : CosineSimilarity(q, rows[j][3]).kind = "nan"
               THEN {"panic:partial_cmp.unwrap"} ELSE {})

\* rows.sort_unstable_by(..): every ascending order of the positions in S;
\* equal scores come in either order
RECURSIVE AscendingOrders(_, _, _)
AscendingOrders(q, rows, S) ==
    IF S = {} THEN {<<>>}
    ELSE UNION {{<<m>> \o t : t \in AscendingOrders(q, rows, S \ {m})} :
                  m \in {i \in S : \A j \in S :
                            PartialCmp(CosineSimilarity(q, rows[j][3]),
                                       CosineSimilarity(q, rows[i][3])) # "less"}}

\* the ranking without rows.reverse(): the sort's ascending order is kept
ReverseNot(s) == s

\* rows.reverse()
Reverse(s) == [i \in 1..Len(s) |-> s[Len(s) + 1 - i]]

\* the orders lines 157-158 can leave the row positions in
RankedOrders(q, rows) == {Reverse(o) : o \in AscendingOrders(q, rows, 1..Len(rows))}

\* Suggestions { name, header } of the rows in order o
Project(rows, o) == [i \in 1..Len(o) |-> <<rows[o[i]][1], rows[o[i]][2]>>]

\* Vec::truncate
Truncate(s, k) == Slice(s, 0, Min(k, Len(s)))

\* the replies the provider can give to the query's request
QueryVecs == {<<1, 0>>, <<0, 2>>, <<0, 0>>, <<1, 0, 0>>}

QueryReplies ==
    {NoReply}
    \cup {[sent |-> TRUE, status |-> st, body |-> b] :
            st \in Statuses,
            b \in {[kind |-> "embeddings", data |-> <<v>>] : v \in QueryVecs}
                  \cup {[kind |-> "embeddings", data |-> <<>>],
                        [kind |-> "error", data |-> <<>>],
                        [kind |-> "garbage", data |-> <<>>]}}

\* get_suggestions is called
QStart(p) ==
    /\ qpc[p] = "idle"
    /\ qpc' = [qpc EXCEPT ![p] = "reading"]
    /\ UNCHANGED <<data_file, store, prior_store, calls, gvars, qerr, qrows, qvec,
                   qres, qcalls, ovars>>

\* the query with the steps in the other order: the provider request is
\* submitted before the store is loaded
QLoadCallFirst(p) ==
    /\ qpc[p] = "reading"
    /\ calls' = calls + 1
    /\ qcalls' = [qcalls EXCEPT ![p] = @ + 1]
    /\ LET r == GetEmbeddingRows(store) IN
       IF r.err # "none"
       THEN /\ qpc' = [qpc EXCEPT ![p] = IF r.err \in {"ReadError", "CsvError"}
                                         THEN "error" ELSE "panic"]
            /\ qerr' = [qerr EXCEPT ![p] = r.err]
            /\ UNCHANGED qrows
       ELSE /\ qpc' = [qpc EXCEPT ![p] = "embedding"]
            /\ qrows' = [qrows EXCEPT ![p] = r.rows]
            /\ qerr' = qerr
    /\ UNCHANGED <<data_file, store, prior_store, gvars, qvec, qres, ovars>>

\* the load that deletes a store it could not parse
QLoadDiscard(p) ==
    /\ qpc[p] = "reading"
    /\ LET r == GetEmbeddingRows(store) IN
       IF r.err # "none"
       THEN /\ qpc' = [qpc EXCEPT ![p] = IF r.err \in {"ReadError", "CsvError"}
                                         THEN "error" ELSE "panic"]
            /\ qerr' = [qerr EXCEPT ![p] = r.err]
            /\ store' = NoFile
            /\ UNCHANGED <<qrows, calls, qcalls>>
       ELSE /\ qpc' = [qpc EXCEPT ![p] = "embedding"]
            /\ qrows' = [qrows EXCEPT ![p] = r.rows]
            /\ calls' = calls + 1
            /\ qcalls' = [qcalls EXCEPT ![p] = @ + 1]
            /\ UNCHANGED <<qerr, store>>
    /\ UNCHANGED <<data_file, prior_store, gvars, qvec, qres, ovars>>

\* the query behind a lock that a generation run in progress holds
QLoadLocked(p) ==
    /\ qpc[p] = "reading"
    /\ gpc \in {"idle", "start", "ok", "error", "panic"}
    /\ LET r == GetEmbeddingRows(store) IN
       IF r.err # "none"
       THEN /\ qpc' = [qpc EXCEPT ![p] = IF r.err \in {"ReadError", "CsvError"}
                                         THEN "error" ELSE "panic"]
            /\ qerr' = [qerr EXCEPT ![p] = r.err]
            /\ UNCHANGED <<qrows, calls, qcalls>>
       ELSE /\ qpc' = [qpc EXCEPT ![p] = "embedding"]
            /\ qrows' = [qrows EXCEPT ![p] = r.rows]
            /\ calls' = calls + 1
            /\ qcalls' = [qcalls EXCEPT ![p] = @ + 1]
            /\ qerr' = qerr
    /\ UNCHANGED <<data_file, store, prior_store, gvars, qvec, qres, ovars>>

\* get_embedding_rows returns, and get_embedding submits the query's request
QLoad(p) ==
    /\ qpc[p] = "reading"
    /\ LET r == GetEmbeddingRows(store) IN
       IF r.err # "none"
       THEN /\ qpc' = [qpc EXCEPT ![p] = IF r.err \in {"ReadError", "CsvError"}
                                         THEN "error" ELSE "panic"]
            /\ qerr' = [qerr EXCEPT ![p] = r.err]
            /\ UNCHANGED <<qrows, calls, qcalls>>
       ELSE /\ qpc' = [qpc EXCEPT ![p] = "embedding"]
            /\ qrows' = [qrows EXCEPT ![p] = r.rows]
            /\ calls' = calls + 1
            /\ qcalls' = [qcalls EXCEPT ![p] = @ + 1]
            /\ qerr' = qerr
    /\ UNCHANGED <<data_file, store, prior_store, gvars, qvec, qres, ovars>>

\* the provider replies; the rows are ranked, projected and truncated
QReply(p) ==
    /\ qpc[p] = "embedding"
    /\ \E rep \in QueryReplies :
         LET r == PostEmbeddingRequest(rep) IN
         IF r.err # "none"
         THEN /\ qpc' = [qpc EXCEPT ![p] = "error"]
              /\ qerr' = [qerr EXCEPT ![p] = r.err]
              /\ UNCHANGED <<qvec, qres>>
         ELSE IF r.data = <<>>
         THEN /\ qpc' = [qpc EXCEPT ![p] = "panic"]
              /\ qerr' = [qerr EXCEPT ![p] = "panic:data[0]"]
              /\ UNCHANGED <<qvec, qres>>
         ELSE /\ qvec' = [qvec EXCEPT ![p] = r.data[1]]
              /\ \/ /\ \E e \in SortFaults(r.data[1], qrows[p]) :
                         qerr' = [qerr EXCEPT ![p] = e]
                    /\ qpc' = [qpc EXCEPT ![p] = "panic"]
                    /\ UNCHANGED qres
                 \/ /\ SortFaults(r.data[1], qrows[p]) = {}
                    /\ \E o \in RankedOrders(r.data[1], qrows[p]) :
                         qres' = [qres EXCEPT ![p] = Truncate(Project(qrows[p], o), TopK)]
                    /\ qpc' = [qpc EXCEPT ![p] = "ok"]
                    /\ qerr' = qerr
    /\ UNCHANGED <<data_file, store, prior_store, calls, gvars, qrows, qcalls, ovars>>

(***************************************************************************)
(* The read-only operations beside the query.                              *)
(***************************************************************************)
\* get_query_cost_estimate, in units of TOKEN_COST: the number of tokens of
\* the joined bodies; every body of the model is one token of the tokenizer
GetQueryCostEstimate(strs) == Len(strs)

\* get_input_cost_estimate: reads the input table, makes no provider call
GetInputCostEstimate ==
    /\ epc = "idle"
    /\ epc' = "done"
    /\ IF ~data_file.readable
       THEN eres' = [err |-> "ReadError", tokens |-> 0]
       ELSE LET c == GetContentToEmbed(data_file.rows) IN
            IF c.err # "none"
            THEN eres' = [err |-> c.err, tokens |-> 0]
            ELSE eres' = [err |-> "none", tokens |-> GetQueryCostEstimate(c.val)]
    /\ UNCHANGED <<data_file, store, prior_store, calls, gvars, qvars, xpc, xres>>

\* check_embedding_file_exists
CheckEmbeddingFileExists ==
    /\ xpc = "idle"
    /\ xpc' = "done"
    /\ xres' = store.exists
    /\ UNCHANGED <<data_file, store, prior_store, calls, gvars, qvars, epc, eres>>

(***************************************************************************)
(* The store a previous run left behind.                                   *)
(***************************************************************************)
OldRow(k) == << <<"old", k>>, <<"oldb", k>>, JoinVector(Embed(k, 0)) >>

OldStore(n) == [exists |-> TRUE, rows |-> [i \in 1..n |-> OldRow(i - 1)]]

QIdle ==
    /\ qpc = [p \in Queries |-> "idle"]
    /\ qerr = [p \in Queries |-> "none"]
    /\ qrows = [p \in Queries |-> <<>>]
    /\ qvec = [p \in Queries |-> <<>>]
    /\ qres = [p \in Queries |-> <<>>]
    /\ qcalls = [p \in Queries |-> 0]
    /\ epc = "idle"
    /\ eres = [err |-> "unset", tokens |-> 0]
    /\ xpc = "idle"
    /\ xres = FALSE

\* the locals of get_embeddings before the run
GenLocals ==
    /\ gerr = "none"
    /\ input = <<>>
    /\ string_records = <<>>
    /\ num_records = 0
    /\ batch_size = 0
    /\ num_processed = 0
    /\ batch = 1
    /\ num_to_process = 0
    /\ request = <<>>
    /\ reply = NoReply
    /\ response = [err |-> "unset", data |-> <<>>]
    /\ pending = <<>>
    /\ log = <<>>
    /\ calls = 0

(***************************************************************************)
(* Spec: one generation run, over every input table and batch count.       *)
(***************************************************************************)
Init ==
    /\ data_file \in {[readable |-> TRUE, rows |-> Table(n)] : n \in 0..MaxDocs}
                     \cup {[readable |-> FALSE, rows |-> <<>>],
                           [readable |-> TRUE, rows |-> <<>>],
                           [readable |-> TRUE, rows |-> Ragged(2)],
                           [readable |-> TRUE, rows |-> Narrow(2)]}
    /\ store \in {NoFile, OldStore(2)}
    /\ prior_store = store
    /\ num_batches \in 1..MaxBatches
    /\ gpc = "start"
    /\ GenLocals
    /\ QIdle

Next ==
    \/ GenDelete
    \/ GenRead
    \/ GenSubmit
    \/ GenReply
    \/ GenWrite
    \/ GenDone

Spec == Init /\ [][Next]_vars

\* the same run when every provider call and every file operation returns and
\* the code between them runs on
SpecFair == Spec /\ WF_vars(Next)

(***************************************************************************)
(* SpecQuery: one query over a store that a generation run wrote, or that  *)
(* was damaged afterwards, with no generation run in progress.             *)
(***************************************************************************)
\* embedding.csv as a successful run over n documents writes it
GeneratedStore(n, seed) ==
    WriteToPath(NoFile,
                BuildRecords(0, GetContentToEmbed(Table(n)).val,
                             [i \in 1..n |-> Embed(i - 1, seed)],
                             GetFilenameBody(Table(n)).val).data)

\* the same with the vector field of row r replaced
WithField(f, r, field) == [f EXCEPT !.rows[r][3] = field]

QueryStores ==
    {NoFile}
    \cup {GeneratedStore(n, seed) : n \in 1..MaxRows, seed \in {0, 1}}
    \cup {WithField(GeneratedStore(3, 0), r, field) :
            r \in 1..2, field \in {<<"1", "abc">>, <<"">>}}
    \cup {WithField(GeneratedStore(3, 0), 3, <<"1", "0", "0">>)}

InitQuery ==
    /\ data_file = [readable |-> TRUE, rows |-> Table(0)]
    /\ store \in QueryStores
    /\ prior_store = store
    /\ num_batches = 1
    /\ gpc = "idle"
    /\ GenLocals
    /\ QIdle

NextQuery ==
    \/ QStart(1)
    \/ QLoad(1)
    \/ QReply(1)

SpecQuery == InitQuery /\ [][NextQuery]_vars

(***************************************************************************)
(* SpecQueries: any number of queries at once, with the read-only          *)
(* operations, over one store and with no generation run in progress.      *)
(***************************************************************************)
ConcStores ==
    {NoFile}
    \cup {GeneratedStore(n, 0) : n \in 1..MaxConcRows}
    \cup {WithField(GeneratedStore(3, 0), 2, <<"1", "abc">>)}

InitQueries ==
    /\ data_file \in {[readable |-> TRUE, rows |-> Table(2)],
                      [readable |-> FALSE, rows |-> <<>>]}
    /\ store \in ConcStores
    /\ prior_store = store
    /\ num_batches = 1
    /\ gpc = "idle"
    /\ GenLocals
    /\ QIdle

NextQueries ==
    \/ \E p \in Queries : QStart(p)
    \/ \E p \in Queries : QLoad(p)
    \/ \E p \in Queries : QReply(p)
    \/ GetInputCostEstimate
    \/ CheckEmbeddingFileExists

SpecQueries == InitQueries /\ [][NextQueries]_vars

(***************************************************************************)
(* SpecConc: one generation run with two queries started at any moment of  *)
(* it.                                                                     *)
(***************************************************************************)
InitConc ==
    /\ data_file \in {[readable |-> TRUE, rows |-> Table(n)] : n \in 0..MaxConcDocs}
                     \cup {[readable |-> FALSE, rows |-> <<>>]}
    /\ store \in {NoFile, OldStore(2)}
    /\ prior_store = store
    /\ num_batches \in 1..MaxConcBatches
    /\ gpc = "start"
    /\ GenLocals
    /\ QIdle

NextConc ==
    \/ Next
    \/ QStart(1) \/ QLoad(1) \/ QReply(1)
    \/ QStart(2) \/ QLoad(2) \/ QReply(2)

SpecConc == InitConc /\ [][NextConc]_vars

(***************************************************************************)
(* Properties of the generation run.                                       *)
(***************************************************************************)
\* the documents of input.csv, in input order
Docs == CsvRecords(data_file.rows)

\* the run has deleted embedding.csv
RunDeleted == gpc # "start" /\ gerr # "DeleteError"

\* the batches whose range holds input position k
Covering(k) == {b \in 1..Len(log) : log[b].start <= k /\ k < log[b].start + log[b].len}

\* the run ended with an error in the batch it last submitted
FailedInBatch ==
    /\ gpc = "error"
    /\ gerr \in {"Reqwest", "ApiError", "JSONDeserialize", "GetEmbeddingsError", "WriteError"}

\* C1: a run in which every provider call and every store write succeeds
\* processes batch ranges whose union is exactly [0, N): every input position
\* is in exactly one submitted batch, no range reaches past N, and the batch
\* with index num_batches takes the remainder.
C1_BatchCoverage ==
    (gpc \in {"ok", "panic"} /\ gerr \in {"none", "panic:slice"}) =>
        /\ \A k \in 0..(num_records - 1) : Cardinality(Covering(k)) = 1
        /\ \A b \in 1..Len(log) : log[b].start + log[b].len <= num_records
        /\ Len(log) >= num_batches =>
              log[num_batches].len = num_records - log[num_batches].start

\* C2: the record built for position i of a batch carries the name of the
\* document at input position (batch start + i) and the vector at position i
\* of that batch's response; the k-th row of the store is that of document k.
C2_PositionalCorrelation ==
    /\ gpc = "writing" =>
          \A i \in 1..Len(pending) :
              /\ pending[i][1] = Docs[num_processed + i][1]
              /\ pending[i][3] = JoinVector(reply.body.data[i])
    /\ RunDeleted =>
          \A k \in 1..Len(store.rows) :
              /\ store.rows[k][1] = Docs[k][1]
              /\ \E b \in 1..Len(log) :
                    /\ log[b].written
                    /\ log[b].start < k
                    /\ k <= log[b].start + log[b].len
                    /\ store.rows[k][3] = JoinVector(log[b].data[k - log[b].start])

\* five documents in two batches, all written
C2_Witness ==
    /\ gpc = "ok"
    /\ num_records = 5
    /\ num_batches = 2
    /\ Len(log) = 2
    /\ Len(store.rows) = 5

\* C3: the prior store contents are gone before the first batch write, and a
\* run that fails in batch k leaves exactly the records of batches 1..k-1 in
\* input order: none of the prior store, none of batch k or later.
C3_DestructiveRebuild ==
    /\ gpc = "writing" =>
          /\ Len(store.rows) = num_processed
          /\ \A p \in 1..Len(store.rows) : store.rows[p] \notin Range(prior_store.rows)
    /\ FailedInBatch =>
          LET k == Len(log) IN
          /\ \A b \in 1..(k - 1) : log[b].written
          /\ ~log[k].written
          /\ Len(store.rows) = log[k].start
          /\ \A p \in 1..Len(store.rows) :
                /\ store.rows[p] \notin Range(prior_store.rows)
                /\ store.rows[p][1] = Docs[p][1]
                /\ \E b \in 1..(k - 1) :
                      /\ log[b].start < p
                      /\ p <= log[b].start + log[b].len
                      /\ store.rows[p][3] = JoinVector(log[b].data[p - log[b].start])

\* a run over an existing store fails on batch 2 of 3
C3_Witness ==
    /\ FailedInBatch
    /\ prior_store.exists
    /\ num_batches = 3
    /\ Len(log) = 2
    /\ Len(store.rows) = 2

\* C4: every row written to the store is (name, header, vector) with the
\* header (input column 1) of the document whose name (input column 0) is in
\* the first field.
C4_HeaderStored ==
    RunDeleted =>
        \A k \in 1..Len(store.rows) :
            /\ store.rows[k][1] = Docs[k][1]
            /\ store.rows[k][2] = Docs[k][2]

\* C6: a reply is classified by its status first: non-success with a
\* structured error body gives ApiError, success with a parsable body gives
\* the response, and a body that does not deserialize in the shape its status
\* selects gives JSONDeserialize; the run returns that error.
C6_ReplyClassification ==
    response.err # "unset" =>
        /\ (reply.sent /\ ~IsSuccess(reply.status) /\ reply.body.kind = "error")
              => (response.err = "ApiError" /\ gpc = "error" /\ gerr = "ApiError")
        /\ (reply.sent /\ IsSuccess(reply.status) /\ reply.body.kind = "embeddings")
              => (response.err = "none" /\ response.data = reply.body.data)
        /\ (reply.sent /\ \/ (IsSuccess(reply.status) /\ reply.body.kind # "embeddings")
                          \/ (~IsSuccess(reply.status) /\ reply.body.kind # "error"))
              => (response.err = "JSONDeserialize" /\ gpc = "error"
                  /\ gerr = "JSONDeserialize")

\* a 429 with a structured error body has come back
C6_Witness ==
    /\ reply.sent
    /\ reply.status = 429
    /\ reply.body.kind = "error"
    /\ gerr = "ApiError"

\* C9 as stated: with no documents the run leaves the store present and
\* empty, having submitted no provider request.
C9_EmptyStorePresent ==
    (gpc = "ok" /\ num_records = 0) =>
        (store.exists /\ store.rows = <<>> /\ calls = 0)

\* C9 as amended: with no documents the run submits no provider request and
\* writes nothing, so the store stays absent after the delete.
C9_EmptyInputStoreAbsent ==
    (gpc \in {"loop", "awaiting", "writing", "ok"} /\ num_records = 0) =>
        (~store.exists /\ calls = 0 /\ log = <<>>)

\* a run over no documents has ended after deleting an existing store
C9_Witness ==
    /\ gpc = "ok"
    /\ num_records = 0
    /\ prior_store.exists
    /\ ~store.exists

(***************************************************************************)
(* Properties of the query.                                                *)
(***************************************************************************)
\* every vector field of embedding.csv is a list of numbers
WellFormed(f) ==
    \A j \in 1..Len(f.rows) : \A t \in 1..Len(f.rows[j][3]) : IsF32(f.rows[j][3][t])

\* the score of row j of embedding.csv against the query embedding of p
StoreScore(p, j) == CosineSimilarity(qvec[p], ParseVector(store.rows[j][3]))

\* the row of embedding.csv a suggestion is the projection of
RowOf(sugg) ==
    CHOOSE j \in 1..Len(store.rows) : sugg = <<store.rows[j][1], store.rows[j][2]>>

\* c * v
Scale(c, v) == [i \in 1..Len(v) |-> c * v[i]]

Scales == 2..MaxScale

\* C5: over a store of N records whose scores are all comparable, the query
\* returns exactly min(10, N) suggestions, without duplicates, that are the
\* projections of the highest-scoring store rows in non-increasing score
\* order: no row left out scores strictly higher than a row returned.
C5_TopK ==
    \A p \in Queries :
        (/\ qpc[p] = "ok"
         /\ WellFormed(store)
         /\ \A j \in 1..Len(store.rows) : StoreScore(p, j).kind = "num") =>
            /\ Len(qres[p]) = Min(TopK, Len(store.rows))
            /\ \A i \in 1..Len(qres[p]) :
                  \E j \in 1..Len(store.rows) :
                      qres[p][i] = <<store.rows[j][1], store.rows[j][2]>>
            /\ \A i, k \in 1..Len(qres[p]) : i # k => qres[p][i] # qres[p][k]
            /\ \A i, k \in 1..Len(qres[p]) :
                  i < k => PartialCmp(StoreScore(p, RowOf(qres[p][i])),
                                      StoreScore(p, RowOf(qres[p][k]))) # "less"
            /\ \A j \in 1..Len(store.rows) :
                  (\A i \in 1..Len(qres[p]) : RowOf(qres[p][i]) # j) =>
                      \A i \in 1..Len(qres[p]) :
                          PartialCmp(StoreScore(p, j),
                                     StoreScore(p, RowOf(qres[p][i]))) # "greater"

\* C7: multiplying one stored record's vector by c > 0 does not change how
\* that record compares with any other record under the query's score.
C7_ScaleInvariant ==
    \A p \in Queries :
        qpc[p] = "ok" =>
            \A i, j \in 1..Len(qrows[p]) : \A c \in Scales :
                i # j =>
                    PartialCmp(CosineSimilarity(qvec[p], Scale(c, qrows[p][i][3])),
                               CosineSimilarity(qvec[p], qrows[p][j][3]))
                    = PartialCmp(CosineSimilarity(qvec[p], qrows[p][i][3]),
                                 CosineSimilarity(qvec[p], qrows[p][j][3]))

\* C8: the ranking step never panics, whatever the query vector and the
\* stored vectors are (zero magnitude, differing dimension).
C8_RankingNeverPanics ==
    \A p \in Queries : qerr[p] \notin {"panic:dot", "panic:partial_cmp.unwrap"}

\* C10: when a row's vector field holds a token that is not a number, the
\* load fails with an error returned to the caller and the query returns no
\* ranking.
C10_MalformedTokenIsError ==
    \A p \in Queries :
        (/\ qpc[p] \notin {"idle", "reading"}
         /\ store.exists
         /\ ~WellFormed(store)) =>
            (qpc[p] = "error" /\ qres[p] = <<>>)

(***************************************************************************)
(* Further properties of the generation run.                               *)
(***************************************************************************)
\* the run has ended
GenEnded == gpc \in {"ok", "error", "panic"}

\* C11: when the success response of a batch holds fewer vectors than the
\* batch has inputs, or a position of the batch has no input document, the
\* run returns GetEmbeddingsError and does not end in an out-of-bounds fault.
C11_ExplicitCorrelationError ==
    /\ (gpc # "awaiting" /\ response.err = "none" /\ Len(response.data) < Len(request))
          => (gpc = "error" /\ gerr = "GetEmbeddingsError")
    /\ (gpc \in {"error", "panic"} /\ num_processed + num_to_process > num_records)
          => (gpc = "error" /\ gerr = "GetEmbeddingsError")

\* C12 as stated: a successful run over N >= 1 documents submits exactly
\* num_batches requests, batches 1..B-1 of batch_size records each and batch
\* B of between 1 and 2 * batch_size - 1 records.
C12_ExactlyBRequests ==
    (gpc = "ok" /\ num_records >= 1) =>
        /\ calls = num_batches
        /\ Len(log) = num_batches
        /\ \A b \in 1..(num_batches - 1) : log[b].len = batch_size
        /\ log[num_batches].len >= 1
        /\ log[num_batches].len <= 2 * batch_size - 1

\* C12 as amended: a successful run over N >= 1 documents submits
\* ceil(N / batch_size) <= num_batches requests; every batch but the last one
\* submitted holds batch_size records, the last one between 1 and batch_size.
C12_AtMostBRequests ==
    (gpc = "ok" /\ num_records >= 1) =>
        /\ calls = Len(log)
        /\ Len(log) <= num_batches
        /\ batch = Len(log) + 1
        /\ (Len(log) - 1) * batch_size < num_records
        /\ num_records <= Len(log) * batch_size
        /\ \A b \in 1..(Len(log) - 1) : log[b].len = batch_size
        /\ log[Len(log)].len >= 1
        /\ log[Len(log)].len <= batch_size

\* five documents in three batches, all written
C12_Witness ==
    /\ gpc = "ok"
    /\ num_records = 5
    /\ num_batches = 3
    /\ Len(log) = 3
    /\ log[3].len = 1

\* C13: the batches are processed one after the other in input order: a
\* request is submitted only when every earlier batch has been written, at
\* most one request is in flight, and each batch starts where the one before
\* it ended.
C13_Sequential ==
    /\ \A b \in 1..(Len(log) - 1) :
          /\ log[b].replied
          /\ log[b].written
          /\ log[b + 1].start = log[b].start + log[b].len
    /\ Len(log) >= 1 => log[1].start = 0
    /\ Cardinality({b \in 1..Len(log) : ~log[b].replied}) <= 1
    /\ (\E b \in 1..Len(log) : ~log[b].replied) <=> gpc = "awaiting"
    /\ calls = Len(log)

\* the second request is in flight after the first batch was written
C13_Witness ==
    /\ gpc = "awaiting"
    /\ Len(log) = 2
    /\ log[1].written
    /\ Len(store.rows) = log[2].start

\* C14: no batch is submitted twice, and once a provider call or a store
\* write has failed the run is over with that error: it takes no further
\* step, so it submits no request and writes nothing more.
C14_NoRetryNoSwallow ==
    /\ \A a, b \in 1..Len(log) : a # b => log[a].start # log[b].start
    /\ response.err \notin {"none", "unset"} => (gpc = "error" /\ gerr = response.err)
    /\ gerr # "none" => (gpc \in {"error", "panic"} /\ ~ENABLED Next)
    /\ gpc \in {"error", "panic"} => gerr # "none"

\* the write of the second batch has failed
C14_Witness ==
    /\ gpc = "error"
    /\ gerr = "WriteError"
    /\ Len(log) = 2
    /\ calls = 2
    /\ Len(store.rows) = log[2].start

\* C19: the run ends; a written batch advances num_processed by at least 1;
\* the run never submits more than num_batches requests nor more than N.
C19_Terminates ==
    /\ <>GenEnded
    /\ [](calls <= num_batches /\ (calls > 0 => calls <= num_records))
    /\ [][num_processed' # num_processed => num_processed' >= num_processed + 1]_vars
    /\ [][log' # log /\ Len(log') = Len(log) /\ log'[Len(log)].written
            => num_processed' >= num_processed + 1]_vars

\* a run of three batches has ended well
C19_Witness ==
    /\ gpc = "ok"
    /\ calls = 3
    /\ num_processed = num_records
    /\ num_records = 5

\* C20: the prior store is gone before input.csv is read: a run that returns
\* an error from reading or parsing the input, or from its first batch,
\* leaves the store absent, and the records were lost before any provider
\* request.
C20_DeletedBeforeRead ==
    /\ (RunDeleted /\ log = <<>>) => (~store.exists /\ calls = 0)
    /\ (gpc = "error" /\ gerr \in {"ReadError", "CsvError"}) => (~store.exists /\ calls = 0)
    /\ (FailedInBatch /\ Len(log) = 1) => ~store.exists

\* the input had a row of the wrong column count and the prior store is lost
C20_Witness ==
    /\ gpc = "error"
    /\ gerr = "CsvError"
    /\ prior_store.exists
    /\ ~store.exists
    /\ calls = 0

(***************************************************************************)
(* The query beside other operations.                                      *)
(***************************************************************************)
\* the outcomes of get_embedding_rows that end the query
LoadFailures == {"ReadError", "CsvError", "panic:get(2).unwrap", "panic:parse.unwrap"}

\* get_embedding_rows of query p has returned
Loaded(p) == qpc[p] \notin {"idle", "reading"}

\* the records of the store the queries started over
SoloRows == GetEmbeddingRows(prior_store).rows

\* the score of record j that query p loaded against its query embedding
LoadedScore(p, j) == CosineSimilarity(qvec[p], qrows[p][j][3])

\* the record query p loaded that a suggestion is the projection of
LoadedRowOf(p, sugg) ==
    CHOOSE j \in 1..Len(qrows[p]) : sugg = <<qrows[p][j][1], qrows[p][j][2]>>

\* C15: a query, get_input_cost_estimate and check_embedding_file_exists
\* leave the store as it was in every outcome, the two read-only operations
\* make no provider request, and a query has made exactly one provider
\* request when it succeeds and at most one when it fails.
C15_ReadOnlyOperations ==
    /\ store = prior_store
    /\ \A p \in Queries :
          /\ qcalls[p] <= 1
          /\ qpc[p] = "ok" => qcalls[p] = 1
    /\ calls = Cardinality({p \in Queries : qcalls[p] = 1})
    /\ xpc = "done" => xres = prior_store.exists

\* a query succeeded, another failed on its provider request, and both
\* read-only operations returned
C15_Witness ==
    /\ qpc[1] = "ok"
    /\ qerr[2] = "ApiError"
    /\ qcalls[2] = 1
    /\ epc = "done"
    /\ eres.err = "none"
    /\ xpc = "done"
    /\ xres

\* C16: with no generation run in progress, every query among simultaneous
\* queries returns what it returns alone: its load fails exactly when the
\* store cannot be loaded, it loads every record of the store and ranks them
\* by its own query embedding (non-increasing score, no duplicate, nothing
\* left out that scores strictly higher), two queries with the same
\* embedding and no tied scores return the same list, and the store is as it
\* was.
C16_QueriesIndependent ==
    /\ store = prior_store
    /\ \A p \in Queries :
          /\ Loaded(p) =>
                (qerr[p] \in LoadFailures <=> GetEmbeddingRows(prior_store).err # "none")
          /\ (Loaded(p) /\ qerr[p] \notin LoadFailures) => qrows[p] = SoloRows
          /\ qpc[p] = "ok" =>
                /\ Len(qres[p]) = Min(TopK, Len(qrows[p]))
                /\ \A i \in 1..Len(qres[p]) :
                      \E j \in 1..Len(qrows[p]) :
                          qres[p][i] = <<qrows[p][j][1], qrows[p][j][2]>>
                /\ \A i, k \in 1..Len(qres[p]) : i # k => qres[p][i] # qres[p][k]
                /\ \A i, k \in 1..Len(qres[p]) :
                      i < k => PartialCmp(LoadedScore(p, LoadedRowOf(p, qres[p][i])),
                                          LoadedScore(p, LoadedRowOf(p, qres[p][k]))) # "less"
                /\ \A j \in 1..Len(qrows[p]) :
                      (\A i \in 1..Len(qres[p]) : LoadedRowOf(p, qres[p][i]) # j) =>
                          \A i \in 1..Len(qres[p]) :
                              PartialCmp(LoadedScore(p, j),
                                         LoadedScore(p, LoadedRowOf(p, qres[p][i]))) # "greater"
    /\ \A p, q \in Queries :
          (/\ qpc[p] = "ok" /\ qpc[q] = "ok" /\ qvec[p] = qvec[q]
           /\ \A i, j \in 1..Len(qrows[p]) :
                 i # j => PartialCmp(LoadedScore(p, i), LoadedScore(p, j)) # "equal")
              => qres[p] = qres[q]

\* two queries with different embeddings have both ranked four records,
\* each in its own order
C16_Witness ==
    /\ qpc[1] = "ok"
    /\ qpc[2] = "ok"
    /\ qvec[1] # qvec[2]
    /\ Len(qres[1]) = 4
    /\ Len(qres[2]) = 4
    /\ qres[1] # qres[2]

\* a generation run is between its delete and its return
GenInFlight == gpc \in {"read", "loop", "awaiting", "writing"}

\* C17: nothing in the query or the generation code blocks or rejects a
\* query during a generation run: whatever the run is doing, a query can
\* start, its load of the store can run, and its provider reply can be
\* processed; and whatever the queries are doing, the run can take its next
\* step.
C17_NothingBlocks ==
    /\ \A p \in Queries :
          /\ qpc[p] = "idle" => ENABLED QStart(p)
          /\ qpc[p] = "reading" => ENABLED QLoad(p)
          /\ qpc[p] = "embedding" => ENABLED QReply(p)
    /\ gpc = "start" => ENABLED GenDelete
    /\ gpc = "read" => ENABLED GenRead
    /\ gpc = "loop" => ENABLED (GenSubmit \/ GenDone)
    /\ gpc = "awaiting" => ENABLED GenReply
    /\ gpc = "writing" => ENABLED GenWrite

\* during one run over three documents, one query read the store when the
\* run had deleted it, and another loaded a store that held the records of
\* the first batch only
C17_Witness ==
    /\ GenInFlight
    /\ num_records = 3
    /\ prior_store.exists
    /\ qerr[1] = "ReadError"
    /\ Loaded(2)
    /\ qerr[2] \notin LoadFailures
    /\ Len(qrows[2]) = 1
    /\ Len(store.rows) = 2
    /\ Len(log) = 2

\* C18 as stated: the provider request is made before the store is loaded,
\* so once the load has returned, with rows or with a failure, the query has
\* made its provider request.
C18_CallBeforeLoad ==
    \A p \in Queries : Loaded(p) => qcalls[p] = 1

\* C18 as the code has it: the store is loaded first and the provider
\* request is made only after the load has returned rows; a query whose load
\* failed has made no provider request.
C18_LoadBeforeCall ==
    \A p \in Queries :
        /\ qerr[p] \in LoadFailures => qcalls[p] = 0
        /\ qcalls[p] >= 1 => (Loaded(p) /\ qerr[p] \notin LoadFailures)
        /\ (Loaded(p) /\ qerr[p] \notin LoadFailures) => qcalls[p] = 1

\* a query over an absent store has failed and made no provider request
C18_Witness ==
    /\ ~store.exists
    /\ qpc[1] = "error"
    /\ qerr[1] = "ReadError"
    /\ qcalls[1] = 0

====
